---- MODULE Spec2Model ----
(***************************************************************************)
(* sweatervest: scene-graph records (Circle, ConvexPolygon, LinePath,      *)
(* CubicHermitePath, MicropolygonMesh), their colour resolution and vertex *)
(* normalisation, and the class registry filled at package import.         *)
(*                                                                         *)
(* Numbers.  A Python number of a document node is [t |-> "int", v |-> n]  *)
(* or [t |-> "float", v |-> u]; a float (and every float32 array cell) is  *)
(* held in fixed point, u = value * Unit, so that c / 255. is exact.       *)
(* An ndarray is [shape |-> <<..>>, data |-> row-major cells]; arrays live *)
(* in a heap (id -> ndarray) so that "same object" is observable.          *)
(***************************************************************************)
EXTENDS Integers, Sequences, FiniteSets, TLC

(* ------------------------------ bounds --------------------------------- *)
MaxRows == 2      \* leading axis sizes of generated arrays are in 1..MaxRows
MaxWidth == 9     \* last-axis sizes of generated arrays are in 0..MaxWidth
MaxRank == 4      \* ranks of generated arrays are in 1..MaxRank
MaxDigits == 9    \* hex-digit bodies of generated colour strings: 0..MaxDigits
MaxPattern == 1   \* cell-value patterns of generated arrays: 0..MaxPattern

(* --------------------------- python values ----------------------------- *)
Unit == 255       \* fixed-point denominator: 1.0 is Unit, c / 255. is c

None == [kind |-> "None"]

PyInt(n) == [t |-> "int", v |-> n]

PyFloat(u) == [t |-> "float", v |-> u]

Raise(type, msg) == [kind |-> "exc", type |-> type, msg |-> msg]

IsExc(x) == x.kind = "exc"

\* float(x) / dtype=np.float32 conversion of one python number
float32(x) == IF x.t = "int" THEN x.v * Unit ELSE x.v

\* float.tolist(): a float32 cell becomes a python float
tolist_item(u) == PyFloat(u)

(* ------------------------------ util.py -------------------------------- *)
LowerHex == <<"0","1","2","3","4","5","6","7","8","9","a","b","c","d","e","f">>

UpperHex == <<"A","B","C","D","E","F">>

\* the character class [0-9a-fA-F]
digit(ch) == (\E i \in 1..Len(LowerHex) : LowerHex[i] = ch)
             \/ (\E i \in 1..Len(UpperHex) : UpperHex[i] = ch)

AllDigits(s) == \A i \in 1..Len(s) : digit(s[i])

\* value of one hex digit, as int(ch, 16) reads it
HexVal(ch) == IF \E i \in 1..Len(UpperHex) : UpperHex[i] = ch
              THEN 9 + (CHOOSE i \in 1..Len(UpperHex) : UpperHex[i] = ch)
              ELSE (CHOOSE i \in 1..Len(LowerHex) : LowerHex[i] = ch) - 1

RECURSIVE int16(_)
\* int(s, 16)
int16(s) == IF Len(s) = 0 THEN 0
            ELSE 16 * int16(SubSeq(s, 1, Len(s) - 1)) + HexVal(s[Len(s)])

\* '#?' of the pattern: an optional leading '#'
strip_hash(string) ==
    IF Len(string) > 0 /\ string[1] = "#" THEN Tail(string) ELSE string

\* '$' of the pattern: it matches at the end of the string and also just
\* before a newline that is the last character of the string
strip_newline(rest) ==
    IF Len(rest) > 0 /\ rest[Len(rest)] = "\n" THEN SubSeq(rest, 1, Len(rest) - 1) ELSE rest

\* (?P<double>(?:dd){3,4})|(?P<single>d{3,4}) against the whole body
match_groups(body) ==
    IF ~AllDigits(body) THEN None
    ELSE IF Len(body) \in {6, 8} THEN [kind |-> "match", group |-> "double", text |-> body]
    ELSE IF Len(body) \in {3, 4} THEN [kind |-> "match", group |-> "single", text |-> body]
    ELSE None

\* color_grammar['hex_color'].match(string):
\*   ^#?(?:(?P<double>(?:dd){3,4})|(?P<single>d{3,4}))$
hex_color_match(string) == match_groups(strip_newline(strip_hash(string)))

\* tuple(int(2*v, 16) for v in (R, G, B, A))
single_bytes(vs) == [kind |-> "tuple", items |-> [i \in 1..4 |-> int16(<<vs[i], vs[i]>>)]]

\* tuple(int(v, 16) for v in (R, G, B, A))
double_bytes(vs) == [kind |-> "tuple", items |-> [i \in 1..4 |-> int16(vs[i])]]

\* lines 25-29
parse_single(single) ==
    single_bytes(<<single[1], single[2], single[3],
                   IF Len(single) = 3 THEN "f" ELSE single[4]>>)

\* lines 31-35
parse_double(double) ==
    double_bytes(<<SubSeq(double, 1, 2), SubSeq(double, 3, 4), SubSeq(double, 5, 6),
                   IF Len(double) = 6 THEN <<"f", "f">> ELSE SubSeq(double, 7, 8)>>)

\* lines 22-35, on the match object m
parse_match(m) ==
    IF m.kind = "None" THEN None
    ELSE IF m.group = "single" THEN parse_single(m.text)
    ELSE parse_double(m.text)

parse_color(string) == parse_match(hex_color_match(string))

\* c / 255. for an int c
div255(c) == (c * Unit) \div 255

\* tuple(c / 255. for c in p), p being what parse_color returned
scale_parsed(p) ==
    IF p.kind = "None"
    THEN Raise("TypeError", "'NoneType' object is not iterable")
    ELSE [kind |-> "tuple", items |-> [i \in 1..Len(p.items) |-> div255(p.items[i])]]

\* tuple(c / 255. if isinstance(c, int) else c for c in color)
scale_sequence(items) ==
    [kind |-> "tuple",
     items |-> [i \in 1..Len(items) |->
                  IF items[i].t = "int" THEN div255(items[i].v) ELSE items[i].v]]

\* color is None, [kind |-> "str", s |-> chars] or [kind |-> "list", items |-> numbers]
color_to_float(color) ==
    IF color.kind = "None" THEN [kind |-> "tuple", items |-> <<0, 0, 0, 0>>]
    ELSE IF color.kind = "str" THEN scale_parsed(parse_color(color.s))
    ELSE scale_sequence(color.items)

(* ------------------------- numpy primitives ---------------------------- *)
RECURSIVE Prod(_)
Prod(shape) == IF Len(shape) = 0 THEN 1 ELSE Head(shape) * Prod(Tail(shape))

\* size of the last axis
Width(a) == a.shape[Len(a.shape)]

\* np.array(nested_list, dtype=np.float32); a rectangular nested list is
\* [shape |-> .., data |-> python numbers]
np_array(list) ==
    [shape |-> list.shape, data |-> [k \in 1..Len(list.data) |-> float32(list.data[k])]]

\* ndarray.tolist()
tolist(a) ==
    [shape |-> a.shape, data |-> [k \in 1..Len(a.data) |-> tolist_item(a.data[k])]]

\* np.zeros(shape=shape, dtype=np.float32)
np_zeros(shape) == [shape |-> shape, data |-> [k \in 1..Prod(shape) |-> 0]]

\* out[..., :x] = src        (src has last axis x and out's leading axes)
set_to(out, x, src) ==
    [out EXCEPT !.data = [k \in 1..Len(out.data) |->
        LET r == (k - 1) \div Width(out)
            j == (k - 1) % Width(out)
        IN  IF j < x THEN src.data[r * Width(src) + j + 1] ELSE out.data[k]]]

\* out[..., x] = val
set_at(out, x, val) ==
    [out EXCEPT !.data = [k \in 1..Len(out.data) |->
        IF (k - 1) % Width(out) = x THEN val ELSE out.data[k]]]

\* out[..., x:] = items      (items broadcast along the leading axes)
set_from(out, x, items) ==
    IF Len(items) \notin {1, Width(out) - x}
    THEN Raise("ValueError", "could not broadcast input array")
    ELSE [kind |-> "ndarray",
          a |-> [out EXCEPT !.data = [k \in 1..Len(out.data) |->
                   LET j == (k - 1) % Width(out)
                   IN  IF j >= x
                       THEN (IF Len(items) = 1 THEN items[1] ELSE items[j - x + 1])
                       ELSE out.data[k]]]]

\* a call returning the array object id, with the heap after the call
Return(id, h) == [kind |-> "ndarray", id |-> id, heap |-> h]

(* ----------------------- util.reshape_vertices ------------------------- *)
valid == {2, 3, 4, 8}

CanonicalWidth == 8

\* lines 48-68: the rank dispatch; gives the raw width and the output shape
shape_dispatch(shape) ==
    IF Len(shape) = 2
    THEN [kind |-> "ok", dimension |-> shape[2], shape |-> [shape EXCEPT ![2] = CanonicalWidth]]
    ELSE IF Len(shape) = 3
    THEN [kind |-> "ok", dimension |-> shape[3], shape |-> [shape EXCEPT ![3] = CanonicalWidth]]
    ELSE Raise("RuntimeError", "input must have shape of length 2 or 3")

\* lines 83-84: the z default
default_z(out, dimension) == IF dimension < 3 THEN set_at(out, 2, Unit) ELSE out

\* default_w with the default also applied to width 4
default_w_overwrite(out, dimension) == IF dimension <= 4 THEN set_at(out, 3, Unit) ELSE out

\* lines 86-87: the w default
default_w(out, dimension) == IF dimension < 4 THEN set_at(out, 3, Unit) ELSE out

\* store_inplace: the result written over the input object
store_inplace(h, o) == IF IsExc(o) THEN o ELSE Return(1, [h EXCEPT ![1] = o.a])

\* the filled array becomes a new object, which is returned
store(h, o) == IF IsExc(o) THEN o ELSE Return(Len(h) + 1, Append(h, o.a))

\* lines 89-91: out[slice_from(4)] = c; return out
fill_color(h, out, c) == IF IsExc(c) THEN c ELSE store(h, set_from(out, 4, c.items))

\* lines 80-91: allocate, copy, default, colour
vertices_fill(h, input, shape, dimension, color) ==
    fill_color(h,
               default_w(default_z(set_to(np_zeros(shape), dimension, h[input]), dimension),
                         dimension),
               color_to_float(color))

\* reshape_checked with the width-8 passthrough taken before the rank check
reshape_checked_early(h, input, color, d) ==
    IF Width(h[input]) = CanonicalWidth THEN Return(input, h)
    ELSE IF IsExc(d) THEN d
    ELSE IF d.dimension \notin valid THEN Raise("RuntimeError", "invalid input dimension")
    ELSE vertices_fill(h, input, d.shape, d.dimension, color)

\* lines 64-91, d being the outcome of the rank dispatch
reshape_checked(h, input, color, d) ==
    IF IsExc(d) THEN d
    ELSE IF d.dimension \notin valid THEN Raise("RuntimeError", "invalid input dimension")
    ELSE IF d.dimension = CanonicalWidth THEN Return(input, h)
    ELSE vertices_fill(h, input, d.shape, d.dimension, color)

reshape_vertices(h, input, color) ==
    reshape_checked(h, input, color, shape_dispatch(h[input].shape))

(* ------------------------ LinePath.reshape_input ----------------------- *)
\* lines 36-37
LinePath_default_z(out, dimension) == IF dimension < 3 THEN set_at(out, 2, Unit) ELSE out

\* lines 39-40
LinePath_default_w(out, dimension) == IF dimension < 4 THEN set_at(out, 3, Unit) ELSE out

\* lines 42-44
LinePath_fill_color(h, out, c) == IF IsExc(c) THEN c ELSE store(h, set_from(out, 4, c.items))

\* lines 22-44
LinePath_reshape_width(h, input, color, shape, dimension) ==
    IF dimension > 8 THEN Raise("RuntimeError", "input dimension too high")
    ELSE IF dimension = 8 THEN Return(input, h)
    ELSE LinePath_fill_color(h,
            LinePath_default_w(
                LinePath_default_z(
                    set_to(np_zeros([shape EXCEPT ![2] = 8]), dimension, h[input]),
                    dimension),
                dimension),
            color_to_float(color))

LinePath_reshape_input(h, input, color) ==
    IF Len(h[input].shape) # 2 THEN Raise("RuntimeError", "input must have shape of length 2")
    ELSE LinePath_reshape_width(h, input, color, h[input].shape, h[input].shape[2])

(* -------------------- MicropolygonMesh.reshape_input ------------------- *)
\* np.array(color, dtype=np.float32).reshape([1, 1, 4])
Mesh_reshape4(c) ==
    IF IsExc(c) THEN c
    ELSE IF Len(c.items) # 4 THEN Raise("ValueError", "cannot reshape array into shape (1,1,4)")
    ELSE c

\* Mesh_color with opaque white as the colour of a mesh without one
Mesh_color_white(color) ==
    IF color.kind = "None"
    THEN Mesh_reshape4([kind |-> "tuple", items |-> <<Unit, Unit, Unit, Unit>>])
    ELSE IF color.kind = "str" THEN Mesh_reshape4(scale_parsed(parse_color(color.s)))
    ELSE Mesh_reshape4(scale_sequence(color.items))

\* lines 42-49: the mesh's own colour resolution
Mesh_color(color) ==
    IF color.kind = "None" THEN Mesh_reshape4([kind |-> "tuple", items |-> <<0, 0, 0, 0>>])
    ELSE IF color.kind = "str" THEN Mesh_reshape4(scale_parsed(parse_color(color.s)))
    ELSE Mesh_reshape4(scale_sequence(color.items))

\* lines 36-37
Mesh_default_z(out, dimension) == IF dimension < 3 THEN set_at(out, 2, Unit) ELSE out

\* lines 39-40
Mesh_default_w(out, dimension) == IF dimension < 4 THEN set_at(out, 3, Unit) ELSE out

\* lines 51-53
Mesh_fill_color(h, out, c) == IF IsExc(c) THEN c ELSE store(h, set_from(out, 4, c.items))

\* lines 22-53
Mesh_reshape_width(h, input, color, shape, dimension) ==
    IF dimension > 8 THEN Raise("RuntimeError", "input dimension too high")
    ELSE IF dimension = 8 THEN Return(input, h)
    ELSE Mesh_fill_color(h,
            Mesh_default_w(
                Mesh_default_z(
                    set_to(np_zeros([shape EXCEPT ![3] = 8]), dimension, h[input]),
                    dimension),
                dimension),
            Mesh_color(color))

Mesh_reshape_input(h, input, color) ==
    IF Len(h[input].shape) # 3 THEN Raise("RuntimeError", "input must have shape of length 3")
    ELSE Mesh_reshape_width(h, input, color, h[input].shape, h[input].shape[3])

(* ------------------------------ classes -------------------------------- *)
\* data.get(key)
get(data, key) == IF key \in DOMAIN data THEN data[key] ELSE None

New(obj, h) == [kind |-> "new", obj |-> obj, heap |-> h]

default_position == <<PyInt(0), PyInt(0), PyInt(1), PyInt(1)>>

\* np.array(position[:4], dtype=np.float32)
position_array(padded) == [i \in 1..4 |-> float32(padded[i])]

\* convert_position padding a short position with zeros
convert_position_zero(position) == position_array(position \o [i \in 1..4 |-> PyInt(0)])

\* circle.convert_position: pad with the defaults, cut to 4, convert to float32
convert_position(position) ==
    position_array(position \o SubSeq(default_position, Len(position) + 1, Len(default_position)))

\* Circle.__init__, c being color_to_float(data.get('color'))
Circle_fields(h, data, c) ==
    IF IsExc(c) THEN c
    ELSE New([kind |-> "object", cls |-> "Circle",
              center |-> convert_position(data.center),
              radius |-> data.radius,
              color |-> c.items,
              data |-> data], h)

Circle_init(h, data) == Circle_fields(h, data, color_to_float(get(data, "color")))

\* ndarray.tolist() of a rank-1 array
tolist1(a) == [i \in 1..Len(a) |-> tolist_item(a[i])]

Circle_convert_to_dict(h, self) ==
    [kind |-> "dict",
     d |-> ("__class__" :> "Circle") @@
           [color |-> [kind |-> "list", items |-> tolist1(self.color)],
            center |-> tolist1(self.center),
            radius |-> self.radius]]

\* self.data = data; self.vertices = r, r being what the normalizer returned
vertex_fields(cls, data, r) ==
    IF IsExc(r) THEN r
    ELSE New([kind |-> "object", cls |-> cls, vertices |-> r.id, data |-> data], r.heap)

ConvexPolygon_init(h, data) ==
    vertex_fields("ConvexPolygon", data,
        reshape_vertices(Append(h, np_array(data.vertices)), Len(h) + 1, get(data, "color")))

ConvexPolygon_convert_to_dict(h, self) ==
    [kind |-> "dict",
     d |-> ("__class__" :> "ConvexPolygon") @@ [vertices |-> tolist(h[self.vertices])]]

CubicHermitePath_init(h, data) ==
    vertex_fields("CubicHermitePath", data,
        reshape_vertices(Append(h, np_array(data.vertices)), Len(h) + 1, get(data, "color")))

CubicHermitePath_convert_to_dict(h, self) ==
    [kind |-> "dict",
     d |-> ("__class__" :> "CubicHermitePath") @@ [vertices |-> tolist(h[self.vertices])]]

LinePath_init(h, data) ==
    vertex_fields("LinePath", data,
        LinePath_reshape_input(Append(h, np_array(data.vertices)), Len(h) + 1,
                               get(data, "color")))

\* class LinePath defines no convert_to_dict: the attribute lookup fails
LinePath_convert_to_dict(h, self) ==
    Raise("AttributeError", "'LinePath' object has no attribute 'convert_to_dict'")

Mesh_init(h, data) ==
    vertex_fields("MicropolygonMesh", data,
        Mesh_reshape_input(Append(h, np_array(data.vertices)), Len(h) + 1, get(data, "color")))

Mesh_convert_to_dict(h, self) ==
    [kind |-> "dict",
     d |-> ("__class__" :> "MicropolygonMesh") @@ [vertices |-> tolist(h[self.vertices])]]

\* cls(data) / cls.convert_to_object(data)
convert_to_object(h, cls, data) ==
    CASE cls = "Circle" -> Circle_init(h, data)
      [] cls = "ConvexPolygon" -> ConvexPolygon_init(h, data)
      [] cls = "CubicHermitePath" -> CubicHermitePath_init(h, data)
      [] cls = "LinePath" -> LinePath_init(h, data)
      [] cls = "MicropolygonMesh" -> Mesh_init(h, data)

\* self.convert_to_dict()
convert_to_dict(h, self) ==
    CASE self.cls = "Circle" -> Circle_convert_to_dict(h, self)
      [] self.cls = "ConvexPolygon" -> ConvexPolygon_convert_to_dict(h, self)
      [] self.cls = "CubicHermitePath" -> CubicHermitePath_convert_to_dict(h, self)
      [] self.cls = "LinePath" -> LinePath_convert_to_dict(h, self)
      [] self.cls = "MicropolygonMesh" -> Mesh_convert_to_dict(h, self)

(* --------------------------- package import ---------------------------- *)
\* sweatervest/__init__.py, lines 3-10, in order
ImportOrder == <<"parser", "circle", "group", "micropolygonmesh", "scene", "linepath">>

\* modules of the package that __init__ does not import
Submodules == {"convex_polygon", "cubic_hermite_path"}

\* the class each module decorates with @register_class
Decorated(m) ==
    CASE m = "circle" -> {"Circle"}
      [] m = "group" -> {"Group"}
      [] m = "micropolygonmesh" -> {"MicropolygonMesh"}
      [] m = "scene" -> {"Scene"}
      [] m = "linepath" -> {"LinePath"}
      [] m = "convex_polygon" -> {"ConvexPolygon"}
      [] m = "cubic_hermite_path" -> {"CubicHermitePath"}
      [] OTHER -> {}

ModuleOf(cls) ==
    CHOOSE m \in Submodules \cup {ImportOrder[i] : i \in 1..Len(ImportOrder)} : cls \in Decorated(m)

Tags == {"Circle", "ConvexPolygon", "LinePath", "CubicHermitePath", "MicropolygonMesh",
         "Group", "Scene"}

\* parser.register_class applied to every class of a module: one entry per tag
register_class(reg, classes) == [t \in Tags |-> IF t \in classes THEN reg[t] + 1 ELSE reg[t]]

(* ------------------------------- inputs -------------------------------- *)
Str(chars) == [kind |-> "str", s |-> chars]

List(items) == [kind |-> "list", items |-> items]

Templates ==
    << <<"f">>, <<"0">>, <<"z">>, <<"f", "0", "0", "8">>,
       <<"f", "f", "0", "0", "0", "0", "f", "f">>,
       <<"a", "b", "c", "D", "E", "F", "1", "2", "9">> >>

\* the first n characters of template t, repeated cyclically
Body(t, n) == [i \in 1..n |-> Templates[t][((i - 1) % Len(Templates[t])) + 1]]

\* colour strings: optional '#', 0..MaxDigits template characters, optional tail
ColorStrings ==
    {pre \o Body(t, n) \o suf :
        pre \in {<< >>, <<"#">>}, t \in 1..Len(Templates), n \in 0..MaxDigits,
        suf \in {<< >>, <<"\n">>, <<"z">>}}

\* colour inputs used with arrays and nodes
ColorInputs ==
    {None,
     Str(<<"#", "f", "0", "0">>), Str(<<"a", "b", "c">>),
     Str(<<"#", "f", "f", "0", "0", "0", "0", "8", "0">>),
     Str(<<"z", "z", "z">>), Str(<<"1", "2", "3", "4", "5">>),
     List(<<PyInt(255), PyInt(0), PyInt(0), PyInt(128)>>),
     List(<<PyFloat(Unit), PyInt(255), PyFloat(0), PyInt(51)>>),
     List(<<PyInt(255), PyInt(0), PyInt(0), PyInt(255), PyInt(0)>>)}

CellValues == <<PyInt(0), PyInt(2), PyFloat(Unit), PyFloat(3 * Unit)>>

\* the leading axes of a generated array of the given rank: n first, then
\* alternately MaxRows + 1 - n and n
Lead(n, rank) == [i \in 1..(rank - 1) |-> IF i % 2 = 1 THEN n ELSE MaxRows + 1 - n]

\* shapes of rank 1..MaxRank: leading axes 1..MaxRows, last axis 0..MaxWidth
Shapes ==
    {Lead(n, rank) \o <<d>> : n \in 1..MaxRows, rank \in 1..MaxRank, d \in 0..MaxWidth}

\* a rectangular nested list of the given shape filled by pattern pat
GenList(shape, pat) ==
    [shape |-> shape,
     data |-> [k \in 1..Prod(shape) |->
                 LET w == shape[Len(shape)]
                 IN  CellValues[((pat + ((k - 1) \div w) + ((k - 1) % w)) % Len(CellValues)) + 1]]]

Lists == {GenList(shape, pat) : shape \in Shapes, pat \in 0..MaxPattern}

\* with or without a 'color' key
WithColor(d) == {d} \cup {d @@ [color |-> c] : c \in ColorInputs}

CircleNodes ==
    UNION {WithColor(("__class__" :> "Circle") @@
                     [center |-> GenList(<<k>>, pat).data, radius |-> r]) :
            k \in 0..MaxWidth, pat \in 0..MaxPattern, r \in {PyInt(2), PyFloat(Unit \div 5)}}

VertexClasses == {"ConvexPolygon", "CubicHermitePath", "LinePath", "MicropolygonMesh"}

VertexNodes(cls) ==
    UNION {WithColor(("__class__" :> cls) @@ [vertices |-> l]) : l \in Lists}

Nodes(cls) == IF cls = "Circle" THEN CircleNodes ELSE VertexNodes(cls)

(* ------------------------------- state --------------------------------- *)
VARIABLES
    pc,        \* number of import statements of __init__.py already executed
    modules,   \* modules of the package that are loaded (sys.modules)
    registry,  \* tag -> number of times register_class registered it
    heap,      \* the live ndarrays, by object id
    op,        \* the operation called last, "idle" between top-level calls
    arg,       \* its arguments, as they were at the call
    ret,       \* what it returned or raised
    rec,       \* the record built by the last constructor call, or None
    doc        \* the node the record was encoded to, or None

vars == <<pc, modules, registry, heap, op, arg, ret, rec, doc>>

Init ==
    /\ pc = 0
    /\ modules = {}
    /\ registry = [t \in Tags |-> 0]
    /\ heap = << >>
    /\ op = "idle"
    /\ arg = None
    /\ ret = None
    /\ rec = None
    /\ doc = None

Initialised == pc = Len(ImportOrder)

\* the package is imported and no call is in progress
Idle == Initialised /\ op = "idle"

\* the next "from .m import ..." of __init__.py
import_package ==
    /\ pc < Len(ImportOrder)
    /\ pc' = pc + 1
    /\ modules' = modules \cup {ImportOrder[pc + 1]}
    /\ registry' = register_class(registry, Decorated(ImportOrder[pc + 1]))
    /\ UNCHANGED <<heap, op, arg, ret, rec, doc>>

\* "import sweatervest.m" by a caller; a loaded module is not executed again
import_submodule ==
    /\ Idle
    /\ \E m \in Submodules \ modules :
         /\ modules' = modules \cup {m}
         /\ registry' = register_class(registry, Decorated(m))
    /\ UNCHANGED <<pc, heap, op, arg, ret, rec, doc>>

call_parse_color ==
    /\ Idle
    /\ \E string \in ColorStrings :
         /\ arg' = [string |-> string]
         /\ ret' = parse_color(string)
    /\ op' = "parse_color"
    /\ heap' = << >>
    /\ rec' = None
    /\ doc' = None
    /\ UNCHANGED <<pc, modules, registry>>

call_color_to_float ==
    /\ Idle
    /\ \E color \in ColorInputs \cup {Str(s) : s \in ColorStrings} :
         /\ arg' = [color |-> color]
         /\ ret' = color_to_float(color)
    /\ op' = "color_to_float"
    /\ heap' = << >>
    /\ rec' = None
    /\ doc' = None
    /\ UNCHANGED <<pc, modules, registry>>

\* the frame of a call f(input, color) on a fresh array: the result without
\* its heap goes to ret, the heap after the call to heap
ArrayCall(name, r, a, color) ==
    /\ op' = name
    /\ arg' = [input |-> 1, array |-> a, color |-> color]
    /\ ret' = IF IsExc(r) THEN r ELSE [kind |-> "ndarray", id |-> r.id]
    /\ heap' = IF IsExc(r) THEN <<a>> ELSE r.heap
    /\ rec' = None
    /\ doc' = None
    /\ UNCHANGED <<pc, modules, registry>>

Arrays == {np_array(l) : l \in Lists}

call_reshape_vertices ==
    /\ Idle
    /\ \E a \in Arrays, color \in ColorInputs :
         ArrayCall("reshape_vertices", reshape_vertices(<<a>>, 1, color), a, color)

call_LinePath_reshape_input ==
    /\ Idle
    /\ \E a \in Arrays, color \in ColorInputs :
         ArrayCall("LinePath.reshape_input", LinePath_reshape_input(<<a>>, 1, color), a, color)

call_Mesh_reshape_input ==
    /\ Idle
    /\ \E a \in Arrays, color \in ColorInputs :
         ArrayCall("MicropolygonMesh.reshape_input", Mesh_reshape_input(<<a>>, 1, color), a, color)

\* the frame of a constructor call, r being what the constructor gave
ObjectCall(name, cls, data, r, h) ==
    /\ op' = name
    /\ arg' = [cls |-> cls, data |-> data]
    /\ ret' = IF IsExc(r) THEN r ELSE r.obj
    /\ heap' = IF IsExc(r) THEN h ELSE r.heap

\* cls(data), for a class whose module is loaded
construct ==
    /\ Idle
    /\ \E cls \in {c \in VertexClasses \cup {"Circle"} : ModuleOf(c) \in modules} :
         \E data \in Nodes(cls) :
           /\ ObjectCall("construct", cls, data, convert_to_object(<< >>, cls, data), << >>)
           /\ rec' = IF IsExc(ret') THEN None ELSE ret'
    /\ doc' = None
    /\ UNCHANGED <<pc, modules, registry>>

\* the frame of rec.convert_to_dict(), r being what it gave
DictCall(r) ==
    /\ op' = "convert_to_dict"
    /\ arg' = [self |-> rec]
    /\ ret' = r
    /\ doc' = IF IsExc(r) THEN None ELSE r

\* rec.convert_to_dict()
encode ==
    /\ op = "construct"
    /\ rec.kind = "object"
    /\ DictCall(convert_to_dict(heap, rec))
    /\ UNCHANGED <<pc, modules, registry, heap, rec>>

\* cls.convert_to_object(doc)
decode ==
    /\ op = "convert_to_dict"
    /\ doc.kind = "dict"
    /\ ObjectCall("convert_to_object", doc.d["__class__"], doc.d,
                  convert_to_object(heap, doc.d["__class__"], doc.d), heap)
    /\ UNCHANGED <<pc, modules, registry, rec, doc>>

\* the caller drops the objects of the finished call
release ==
    /\ op # "idle"
    /\ op' = "idle"
    /\ arg' = None
    /\ ret' = None
    /\ rec' = None
    /\ doc' = None
    /\ heap' = << >>
    /\ UNCHANGED <<pc, modules, registry>>

Next ==
    \/ import_package
    \/ import_submodule
    \/ call_parse_color
    \/ call_color_to_float
    \/ call_reshape_vertices
    \/ call_LinePath_reshape_input
    \/ call_Mesh_reshape_input
    \/ construct
    \/ encode
    \/ decode
    \/ release

Spec == Init /\ [][Next]_vars

(* ------------------------- vocabulary of the claims -------------------- *)
\* the hex grammar as the documentation words it: optional '#', then exactly
\* 3, 4, 6 or 8 hex digits
GrammarBody(s) == IF Len(s) > 0 /\ s[1] = "#" THEN Tail(s) ELSE s

InGrammar(s) == AllDigits(GrammarBody(s)) /\ Len(GrammarBody(s)) \in {3, 4, 6, 8}

\* the bytes the documentation assigns to a string of the grammar
GrammarBytes(s) ==
    LET b == GrammarBody(s)
    IN  IF Len(b) \in {3, 4}
        THEN [i \in 1..4 |-> IF i > Len(b) THEN 255 ELSE 17 * HexVal(b[i])]
        ELSE [i \in 1..4 |-> IF 2 * i > Len(b) THEN 255
                             ELSE 16 * HexVal(b[2 * i - 1]) + HexVal(b[2 * i])]

\* a colour input of the documented domain: absent, a string of the grammar,
\* or four numbers
DocumentedColor(c) ==
    \/ c.kind = "None"
    \/ c.kind = "str" /\ InGrammar(c.s)
    \/ c.kind = "list" /\ Len(c.items) = 4

\* the raw per-vertex width of a node's 'vertices'
RawWidth(data) == data.vertices.shape[Len(data.vertices.shape)]

\* the normalized numeric fields of a record
NumericFields(o, h) ==
    IF o.cls = "Circle"
    THEN [center |-> o.center, radius |-> o.radius, color |-> o.color]
    ELSE [vertices |-> h[o.vertices]]

(* ------------------------------- claims -------------------------------- *)

\* C1: constructing a ConvexPolygon, LinePath, CubicHermitePath or
\* MicropolygonMesh from 'vertices' whose last-axis size is not 2, 3, 4 or 8
\* raises; no record is produced.
C1_InvalidWidthRejected ==
    (op = "construct" /\ arg.cls \in VertexClasses /\ RawWidth(arg.data) \notin {2, 3, 4, 8})
        => (IsExc(ret) /\ rec = None)

\* C2: reshape_vertices never mutates its input, and for every accepted
\* input (rank 2 or 3, width 2, 3, 4 or 8) the array it returns is not the
\* input object.
C2_Pure ==
    (op = "reshape_vertices" /\ ret.kind = "ndarray")
        => (heap[arg.input] = arg.array /\ ret.id # arg.input)

\* C2 as amended: reshape_vertices never mutates its input; for width 2, 3
\* or 4 the returned array is a newly allocated object, and for width 8 the
\* returned array is the input object itself.
C2_PureExceptPassthrough ==
    (op = "reshape_vertices" /\ ret.kind = "ndarray")
        => /\ heap[arg.input] = arg.array
           /\ Width(arg.array) \in {2, 3, 4} => (ret.id # arg.input /\ ret.id = Len(heap))
           /\ Width(arg.array) = 8 => ret.id = arg.input

C2_Witness ==
    /\ op = "reshape_vertices"
    /\ ret.kind = "ndarray"
    /\ Width(arg.array) = 2
    /\ ret.id = 2
    /\ heap[1] = arg.array

\* a node the documentation calls valid for its variant
ValidNode(cls, data) ==
    IF cls = "Circle"
    THEN Len(data.center) \in 2..4 /\ DocumentedColor(get(data, "color"))
    ELSE /\ Len(data.vertices.shape) = (IF cls = "MicropolygonMesh" THEN 3 ELSE 2)
         /\ RawWidth(data) \in {2, 3, 4, 8}
         /\ DocumentedColor(get(data, "color"))

\* C3: every record built from a valid node encodes to a node carrying its
\* variant's tag under '__class__', and decoding that node gives a record
\* with the same normalized numeric fields.
C3_RoundTrip ==
    /\ (op = "convert_to_dict" /\ ValidNode(rec.cls, rec.data))
         => (ret.kind = "dict" /\ ret.d["__class__"] = rec.cls)
    /\ (op = "convert_to_object" /\ ValidNode(rec.cls, rec.data))
         => (ret.kind = "object" /\ NumericFields(ret, heap) = NumericFields(rec, heap))

C5_MalformedColor ==
    (op = "color_to_float" /\ arg.color.kind = "str" /\ ~InGrammar(arg.color.s))
        => (IsExc(ret) /\ ret.type = "MalformedColor")

\* C6: for rank 2 or 3 and width d in {2,3,4}, reshape_vertices returns for
\* every documented colour, and every output row is the d input components,
\* then 1 for each of z, w the input lacks, then the one resolved colour.
C6_RowLayout ==
    (op = "reshape_vertices" /\ Len(arg.array.shape) \in {2, 3} /\ Width(arg.array) \in {2, 3, 4})
        => /\ DocumentedColor(arg.color) => ret.kind = "ndarray"
           /\ ret.kind = "ndarray" =>
                LET d == Width(arg.array)
                    out == heap[ret.id]
                    rgba == color_to_float(arg.color).items
                    cells == Len(arg.array.data) \div d
                IN  /\ Len(out.data) = 8 * cells
                    /\ \A r \in 0..(cells - 1) : \A j \in 0..7 :
                         out.data[8 * r + j + 1] =
                            IF j < d THEN arg.array.data[d * r + j + 1]
                            ELSE IF j < 4 THEN Unit
                            ELSE rgba[j - 3]

\* a rank-3, width-3 input with a supplied z that is not 1 and a hex colour
C6_Witness ==
    /\ op = "reshape_vertices"
    /\ ret.kind = "ndarray"
    /\ Len(arg.array.shape) = 3
    /\ Width(arg.array) = 3
    /\ arg.array.data[3] # Unit
    /\ arg.color.kind = "str"
    /\ heap[ret.id].data[4] = Unit

\* C7: parse_color accepts exactly the strings of the hex grammar and gives
\* their four bytes: doubled digits for 3/4 digits, pairs for 6/8 digits,
\* 255 for a missing alpha; the '#' makes no difference.
C7_ParseColor ==
    op = "parse_color"
        => /\ ret.kind = "tuple" <=> InGrammar(arg.string)
           /\ InGrammar(arg.string) => ret.items = GrammarBytes(arg.string)

\* C8: for rank 2 or 3 and width 2, 3, 4 or 8 reshape_vertices returns an
\* array with the input's rank and leading axes and last axis 8; any other
\* rank is rejected with an error.
C8_OutputShape ==
    op = "reshape_vertices"
        => LET sh == arg.array.shape
           IN  /\ Len(sh) \notin {2, 3} => IsExc(ret)
               /\ (Len(sh) \in {2, 3} /\ Width(arg.array) \in {2, 3, 4, 8})
                    => /\ DocumentedColor(arg.color) => ret.kind = "ndarray"
                       /\ ret.kind = "ndarray" =>
                            /\ heap[ret.id].shape = [sh EXCEPT ![Len(sh)] = 8]
                            /\ Len(heap[ret.id].data) = Prod(heap[ret.id].shape)

C8_Witness ==
    /\ op = "reshape_vertices"
    /\ ret.kind = "ndarray"
    /\ Len(arg.array.shape) = 3
    /\ arg.array.shape[1] = 2
    /\ arg.array.shape[3] = 4
    /\ heap[ret.id].shape = <<2, arg.array.shape[2], 8>>

\* C9: a Circle built from a center of k components (k in 2..4) has the
\* center padded with z = 1, w = 1 to four components, the node's radius and
\* the resolved colour ("#f00" gives (1,0,0,1)); convert_to_dict returns
\* those values under '__class__' = 'Circle'.
C9_Circle ==
    /\ (op = "construct" /\ arg.cls = "Circle" /\ Len(arg.data.center) \in 2..4)
         => /\ DocumentedColor(get(arg.data, "color")) => ret.kind = "object"
            /\ ret.kind = "object" =>
                 /\ ret.center = [i \in 1..4 |->
                        IF i > Len(arg.data.center) THEN Unit
                        ELSE IF arg.data.center[i].t = "int" THEN arg.data.center[i].v * Unit
                        ELSE arg.data.center[i].v]
                 /\ ret.radius = arg.data.radius
                 /\ ret.color = color_to_float(get(arg.data, "color")).items
                 /\ get(arg.data, "color") = Str(<<"#", "f", "0", "0">>)
                      => ret.color = <<Unit, 0, 0, Unit>>
    /\ (op = "convert_to_dict" /\ arg.self.cls = "Circle")
         => /\ ret.kind = "dict"
            /\ ret.d["__class__"] = "Circle"
            /\ ret.d.center = [i \in 1..4 |-> PyFloat(arg.self.center[i])]
            /\ ret.d.radius = arg.self.radius
            /\ ret.d.color = List([i \in 1..Len(arg.self.color) |-> PyFloat(arg.self.color[i])])

\* center [0, 0], colour "#f00", encoded
C9_Witness ==
    /\ op = "convert_to_dict"
    /\ arg.self.cls = "Circle"
    /\ Len(arg.self.data.center) = 2
    /\ get(arg.self.data, "color") = Str(<<"#", "f", "0", "0">>)
    /\ ret.d.center = <<PyFloat(0), PyFloat(2 * Unit), PyFloat(Unit), PyFloat(Unit)>>
    /\ ret.d.color.items = <<PyFloat(Unit), PyFloat(0), PyFloat(0), PyFloat(Unit)>>

\* C10: on rank 2 (LinePath) and rank 3 (MicropolygonMesh) input of width
\* 2, 3, 4 or 8 with a documented colour, the class's own reshape_input
\* returns what util.reshape_vertices returns.
C10_PrivateAgree ==
    ( /\ \/ op = "LinePath.reshape_input" /\ Len(arg.array.shape) = 2
         \/ op = "MicropolygonMesh.reshape_input" /\ Len(arg.array.shape) = 3
      /\ Width(arg.array) \in {2, 3, 4, 8}
      /\ DocumentedColor(arg.color) )
        => LET r == reshape_vertices(<<arg.array>>, arg.input, arg.color)
           IN  /\ ret.kind = "ndarray"
               /\ r.kind = "ndarray"
               /\ ret.id = r.id
               /\ heap[ret.id] = r.heap[r.id]

C10_Witness ==
    /\ op = "MicropolygonMesh.reshape_input"
    /\ arg.color.kind = "None"
    /\ Width(arg.array) = 2
    /\ ret.kind = "ndarray"
    /\ heap[ret.id].data[8] = 0

====
